---- MODULE Spec2Model ----
(***************************************************************************)
(* A model of the Caesar-cipher cracking service: the shift transform      *)
(* (crypto/caesar.py), the candidate generator (crypto/bruteforce.py), the *)
(* feature extractors (crypto/scoring.py) and the /analyze handler with    *)
(* its resource cache (app.py).                                            *)
(*                                                                         *)
(* Text is a sequence of one-character strings.  Real numbers are fixed    *)
(* point integers: feature values and scores are counted in units of       *)
(* 1/10000 (so 1.0 is 10000 and the floor 0.01 is 100).                    *)
(***************************************************************************)
EXTENDS Integers, Sequences, FiniteSets, TLC

\* ------------------------------------------------------------------------
\* Characters
\* ------------------------------------------------------------------------

Lower == <<"a","b","c","d","e","f","g","h","i","j","k","l","m",
           "n","o","p","q","r","s","t","u","v","w","x","y","z">>

Upper == <<"A","B","C","D","E","F","G","H","I","J","K","L","M",
           "N","O","P","Q","R","S","T","U","V","W","X","Y","Z">>

\* The size of the Latin alphabet: the modulus of the shift and the number of
\* keys the generator enumerates.
AlphabetSize == 26

LowerSet == {Lower[i] : i \in 1..AlphabetSize}

UpperSet == {Upper[i] : i \in 1..AlphabetSize}

\* ord(c) - ord('a') for a lowercase letter, ord(c) - ord('A') for an uppercase one.
Offset(c) ==
    IF c \in LowerSet THEN (CHOOSE i \in 1..AlphabetSize : Lower[i] = c) - 1
    ELSE (CHOOSE i \in 1..AlphabetSize : Upper[i] = c) - 1

\* ------------------------------------------------------------------------
\* crypto/caesar.py
\* ------------------------------------------------------------------------

\* _shift_char without the wrap-around: a letter shifted past the end of the
\* alphabet leaves it (modelled as the character "?").
ShiftCharNoWrap(c, k) ==
    IF c \in UpperSet
    THEN IF Offset(c) + k < AlphabetSize THEN Upper[Offset(c) + k + 1] ELSE "?"
    ELSE IF c \in LowerSet
    THEN IF Offset(c) + k < AlphabetSize THEN Lower[Offset(c) + k + 1] ELSE "?"
    ELSE c

ShiftChar(c, k) ==
    IF c \in UpperSet THEN Upper[((Offset(c) + k) % AlphabetSize) + 1]
    ELSE IF c \in LowerSet THEN Lower[((Offset(c) + k) % AlphabetSize) + 1]
    ELSE c

encrypt(plaintext, k) ==
    LET kk == k % AlphabetSize
        shifted == [i \in 1..Len(plaintext) |-> ShiftChar(plaintext[i], kk)]
    IN  SubSeq(shifted, 1, Len(plaintext))

\* decrypt that shifts forward again instead of applying the inverse shift.
DecryptForward(ciphertext, k) == encrypt(ciphertext, k)

decrypt(ciphertext, k) == encrypt(ciphertext, 0 - k)

\* brute_force_caesar that starts at key 1 and so drops the identity shift.
BruteForceFromOne(ciphertext) ==
    [i \in 1..(AlphabetSize - 1) |-> <<i, decrypt(ciphertext, i)>>]

\* brute_force_caesar with range(0, 25): the key 25 is never tried.
BruteForceWithoutLast(ciphertext) ==
    [i \in 1..(AlphabetSize - 1) |-> <<i - 1, decrypt(ciphertext, i - 1)>>]

brute_force_caesar(ciphertext) ==
    [i \in 1..AlphabetSize |-> <<i - 1, decrypt(ciphertext, i - 1)>>]

\* ------------------------------------------------------------------------
\* Character classes of Python's str methods and of the re module, on the
\* characters the model uses
\* ------------------------------------------------------------------------

Digits == {"0", "1", "2", "3", "4", "5", "6", "7", "8", "9"}

\* str.isspace: what str.strip removes and str.split splits on.
Whitespace == {" ", "\t", "\n"}

\* Letters outside ASCII, inside the basic plane (U+0080..U+FFFF).
AccentedLower == {"é", "è", "à", "ç"}

AccentedUpper == {"É"}

\* Characters of U+0080..U+FFFF that are neither letters nor digits.
BmpSymbols == {"€"}

\* Characters above U+FFFF, written by their code point.
AstralSymbols == {"U+1F510"}

\* str.isalpha
IsAlpha(c) == c \in LowerSet \cup UpperSet \cup AccentedLower \cup AccentedUpper

\* \w of the re module on str patterns: letters, digits and the underscore.
IsWordChar(c) == IsAlpha(c) \/ c \in Digits \/ c = "_"

\* The character class [a-z\u0080-\uFFFF].
InLetterClass(c) ==
    c \in LowerSet \cup AccentedLower \cup AccentedUpper \cup BmpSymbols

\* The character class [\w\u0080-\uFFFF].
InWordClass(c) == IsWordChar(c) \/ c \in BmpSymbols

\* str.lower, one character
LowerChar(c) ==
    IF c \in UpperSet THEN Lower[Offset(c) + 1]
    ELSE IF c = "É" THEN "é"
    ELSE c

\* str.lower
lower(text) ==
    LET lowered == [i \in 1..Len(text) |-> LowerChar(text[i])]
    IN  SubSeq(lowered, 1, Len(text))

\* str.strip
RECURSIVE strip(_)
strip(text) ==
    IF text = <<>> THEN <<>>
    ELSE IF Head(text) \in Whitespace THEN strip(Tail(text))
    ELSE IF text[Len(text)] \in Whitespace THEN strip(SubSeq(text, 1, Len(text) - 1))
    ELSE text

\* str.split(): the maximal runs of non-whitespace characters, in order.
\* SplitFrom(text, i, cur) continues at position i with the run cur under way.
RECURSIVE SplitFrom(_, _, _)
SplitFrom(text, i, cur) ==
    IF i > Len(text) THEN (IF cur = <<>> THEN <<>> ELSE <<cur>>)
    ELSE IF text[i] \in Whitespace
    THEN (IF cur = <<>> THEN <<>> ELSE <<cur>>) \o SplitFrom(text, i + 1, <<>>)
    ELSE SplitFrom(text, i + 1, Append(cur, text[i]))

split(text) == SplitFrom(text, 1, <<>>)

\* \b at the position after p characters: exactly one side is a word character.
WordBoundary(text, p) ==
    LET before == p >= 1 /\ IsWordChar(text[p])
        after  == p < Len(text) /\ IsWordChar(text[p + 1])
    IN  before # after

\* The end of the match of [a-z\u0080-\uFFFF]+\b that starts at position i: the
\* greatest j such that text[i..j] lies in the class and \b holds after j (the
\* greedy + gives characters back until \b holds); 0 when there is none.
LetterRunEnd(text, i) ==
    LET ends == {j \in i..Len(text) :
                    /\ \A m \in i..j : InLetterClass(text[m])
                    /\ WordBoundary(text, j)}
    IN  IF ends = {} THEN 0 ELSE CHOOSE j \in ends : \A m \in ends : m <= j

\* re.findall(r'\b[a-z\u0080-\uFFFF]+\b', text), scanning from position i.
RECURSIVE FindWordsFrom(_, _)
FindWordsFrom(text, i) ==
    IF i > Len(text) THEN <<>>
    ELSE LET j == IF WordBoundary(text, i - 1) THEN LetterRunEnd(text, i) ELSE 0
         IN  IF j = 0 THEN FindWordsFrom(text, i + 1)
             ELSE <<SubSeq(text, i, j)>> \o FindWordsFrom(text, j + 1)

FindWords(text) == FindWordsFrom(text, 1)

\* bool(re.match(r'^[\w\u0080-\uFFFF]+$', text, re.UNICODE)) for a text without
\* a line break.
MatchesWordOnly(text) ==
    /\ Len(text) >= 1
    /\ \A i \in 1..Len(text) : InWordClass(text[i])

\* needle in haystack, for strings
Contains(haystack, needle) ==
    \E i \in 1..(Len(haystack) - Len(needle) + 1) :
        SubSeq(haystack, i, i + Len(needle) - 1) = needle

\* ------------------------------------------------------------------------
\* Fixed-point arithmetic
\* ------------------------------------------------------------------------

\* 1.0 in the unit of feature values and scores (1/10000).
Unit == 100 * 100

Max(a, b) == IF a >= b THEN a ELSE b

Min(a, b) == IF a <= b THEN a ELSE b

Abs(a) == IF a >= 0 THEN a ELSE 0 - a

\* Number of binary digits Log2Fix computes after the point.
Log2Bits == 8

\* floor(log2(num / den)), for num >= den >= 1
RECURSIVE Log2Int(_, _)
Log2Int(num, den) == IF num >= 2 * den THEN 1 + Log2Int(num, 2 * den) ELSE 0

\* The digits after the point of log2(m / Unit), for Unit <= m < 2 * Unit, by
\* repeated squaring; w is the weight of the next digit.
RECURSIVE Log2Frac(_, _, _)
Log2Frac(m, w, bits) ==
    IF bits = 0 THEN 0
    ELSE LET sq == (m * m) \div Unit
         IN  IF sq >= 2 * Unit
             THEN w + Log2Frac(sq \div 2, w \div 2, bits - 1)
             ELSE Log2Frac(sq, w \div 2, bits - 1)

\* math.log2(num / den) for num >= den >= 1, in units of 1/10000
Log2Fix(num, den) ==
    LET ip == Log2Int(num, den)
        m  == (num * Unit) \div (den * (2 ^ ip))
    IN  ip * Unit + Log2Frac(m, Unit \div 2, Log2Bits)

\* math.log(c / total) for total >= c >= 1 (a value <= 0), in units of 1/10000:
\* -log2(total / c) * ln 2, with ln 2 = 0.6931
LnRatio(c, total) == 0 - ((Log2Fix(total, c) * 6931) \div Unit)

\* math.exp(-t) for 0 <= t < 5, t and the result in units of 1/10000: the
\* Taylor polynomial of degree 5 at t / 8, squared three times.
ExpNeg(t) ==
    LET u  == t \div 8
        u2 == (u * u) \div Unit
        u3 == (u2 * u) \div Unit
        u4 == (u3 * u) \div Unit
        u5 == (u4 * u) \div Unit
        p  == Unit - u + (u2 \div 2) - (u3 \div 6) + (u4 \div 24) - (u5 \div 120)
        p2 == (p * p) \div Unit
        p4 == (p2 * p2) \div Unit
    IN  (p4 * p4) \div Unit

\* round(x, 4) of a value x given in units of 1/1000000: the nearest multiple
\* of 1/10000, a tie going to the even one; the result in units of 1/10000.
Round4(x) ==
    LET q == x \div 100
        r == x % 100
    IN  IF r > 50 \/ (r = 50 /\ q % 2 = 1) THEN q + 1 ELSE q

\* ------------------------------------------------------------------------
\* crypto/scoring.py: tables
\* ------------------------------------------------------------------------

\* Expected letter frequencies, in units of 1/100000.
ENGLISH_LETTER_FREQ ==
    ("a" :> 8167) @@ ("b" :> 1492) @@ ("c" :> 2782) @@ ("d" :> 4253)
    @@ ("e" :> 12702) @@ ("f" :> 2228) @@ ("g" :> 2015) @@ ("h" :> 6094)
    @@ ("i" :> 6966) @@ ("j" :> 153) @@ ("k" :> 772) @@ ("l" :> 4025)
    @@ ("m" :> 2406) @@ ("n" :> 6749) @@ ("o" :> 7507) @@ ("p" :> 1929)
    @@ ("q" :> 95) @@ ("r" :> 5987) @@ ("s" :> 6327) @@ ("t" :> 9056)
    @@ ("u" :> 2758) @@ ("v" :> 978) @@ ("w" :> 2360) @@ ("x" :> 150)
    @@ ("y" :> 1974) @@ ("z" :> 74)

FRENCH_LETTER_FREQ ==
    ("a" :> 7636) @@ ("b" :> 901) @@ ("c" :> 3260) @@ ("d" :> 3669)
    @@ ("e" :> 14715) @@ ("f" :> 1066) @@ ("g" :> 866) @@ ("h" :> 737)
    @@ ("i" :> 7529) @@ ("j" :> 613) @@ ("k" :> 49) @@ ("l" :> 5456)
    @@ ("m" :> 2968) @@ ("n" :> 7110) @@ ("o" :> 5796) @@ ("p" :> 2521)
    @@ ("q" :> 1362) @@ ("r" :> 6693) @@ ("s" :> 7948) @@ ("t" :> 7244)
    @@ ("u" :> 6311) @@ ("v" :> 1629) @@ ("w" :> 74) @@ ("x" :> 427)
    @@ ("y" :> 128) @@ ("z" :> 326)

common_patterns ==
    << <<"t","h">>, <<"h","e">>, <<"i","n">>, <<"e","r">>, <<"a","n">>, <<"r","e">>, <<"e","d">>,
       <<"n","d">>, <<"o","u">>, <<"t","o">>, <<"e","n">>, <<"a","t">>, <<"i","t">>, <<"i","s">>,
       <<"o","r">>, <<"t","i">>, <<"a","s">>, <<"o","f">>, <<"s","t">>, <<"l","e">>, <<"d","e">>,
       <<"e","t">>, <<"l","a">>, <<"u","n">>, <<"e","s">>, <<"n","t">>, <<"o","n">>, <<"t","e">> >>

\* ------------------------------------------------------------------------
\* crypto/scoring.py: feature extractors
\* ------------------------------------------------------------------------

\* Counter(text)[c]
Count(text, c) == Cardinality({i \in 1..Len(text) : text[i] = c})

\* dict.get(key, default) on a resource bundle
Get(resources, key, default) ==
    IF key \in DOMAIN resources THEN resources[key] ELSE default

\* The empty dict {} of n-gram tables.
EmptyTable == <<>>

stopwords_count(text, stopwords) ==
    IF stopwords = {} THEN 0
    ELSE LET words == FindWords(lower(text))
         IN  Cardinality({i \in 1..Len(words) : words[i] \in stopwords})

valid_word_ratio(text, vocabulary) ==
    IF vocabulary = {} THEN 0
    ELSE LET words == FindWords(lower(text))
             valid == Cardinality({i \in 1..Len(words) : words[i] \in vocabulary})
             ratio == (valid * Unit) \div Len(words)
         IN  IF words = <<>> THEN 0
             ELSE IF ratio = Unit /\ Len(words) > 0
                  THEN Min(Unit, ratio + (5 * Unit) \div 100)
                  ELSE ratio

\* ngrams.get(g, -15.0) summed over the windows of length n of text.lower()
ngram_likelihood(text, ngrams, n) ==
    LET t == lower(text)
        value(i) == LET g == SubSeq(t, i, i + n - 1)
                    IN  IF g \in DOMAIN ngrams THEN ngrams[g] ELSE 0 - 15 * Unit
        sum[i \in 0..Max(Len(t) - n + 1, 0)] ==
            IF i = 0 THEN 0 ELSE sum[i - 1] + value(i)
    IN  sum[Max(Len(t) - n + 1, 0)]

\* Shannon entropy (base 2) of the character distribution, one term
\* -p * log2(p) per distinct character.
character_entropy(text) ==
    LET total == Len(text)
        first(i) == \A j \in 1..(i - 1) : text[j] # text[i]
        term(i) == IF first(i)
                   THEN LET c == Count(text, text[i])
                        IN  (c * Log2Fix(total, c)) \div total
                   ELSE 0
        sum[i \in 0..total] == IF i = 0 THEN 0 ELSE sum[i - 1] + term(i)
    IN  sum[total]

\* chi_squared_letter_score without its floors: 0.0 for a text without
\* letters, and no lower clamp on the score.
ChiSquaredNoFloor(text, expected) ==
    LET letters == lower(SelectSeq(text, IsAlpha))
        n == Len(letters)
        all_letters == {letters[i] : i \in 1..n} \cup DOMAIN expected
        term(ch) ==
            LET observed == Count(letters, ch)
                expected_count == expected[ch] * n
                d == Abs(observed * 100000 - expected_count)
            IN  IF expected[ch] > 0
                THEN IF expected_count > 1000
                     THEN ((((d * 100) \div expected_count) * (d \div 100)) \div 100)
                     ELSE IF observed > 0 THEN observed * 10 * 1000 ELSE 0
                ELSE 0
        sum[i \in 0..AlphabetSize] ==
            IF i = 0 THEN 0
            ELSE sum[i - 1] + (IF Lower[i] \in DOMAIN expected THEN term(Lower[i]) ELSE 0)
        normalized_chi2 == sum[AlphabetSize] \div Max(Cardinality(all_letters) - 1, 1)
        score == IF normalized_chi2 < 1000 THEN Unit
                 ELSE IF normalized_chi2 < 50 * 1000 THEN ExpNeg(normalized_chi2)
                 ELSE (Unit * 100000) \div (100000 + normalized_chi2)
    IN  IF n = 0 THEN 0 ELSE Min(Unit, score)

\* chi_squared_letter_score(text, expected), expected a table of frequencies
\* in units of 1/100000.  chi2 and normalized_chi2 are counted in units of
\* 1/1000.
chi_squared_letter_score(text, expected) ==
    LET letters == lower(SelectSeq(text, IsAlpha))
        n == Len(letters)
        observedKeys == {letters[i] : i \in 1..n}
        all_letters == observedKeys \cup DOMAIN expected
        \* the term of one letter ch of expected (a letter outside expected has
        \* exp_freq = 0.0 and adds nothing)
        term(ch) ==
            LET observed == Count(letters, ch)
                exp_freq == expected[ch]
                expected_count == exp_freq * n              \* 1/100000
                d == Abs(observed * 100000 - expected_count)  \* 1/100000
            IN  IF exp_freq > 0
                THEN IF expected_count > 1000
                     THEN ((((d * 100) \div expected_count) * (d \div 100)) \div 100)
                     ELSE IF observed > 0 THEN observed * 10 * 1000 ELSE 0
                ELSE 0
        sum[i \in 0..AlphabetSize] ==
            IF i = 0 THEN 0
            ELSE sum[i - 1] + (IF Lower[i] \in DOMAIN expected THEN term(Lower[i]) ELSE 0)
        chi2 == sum[AlphabetSize]
        degrees_of_freedom == Max(Cardinality(all_letters) - 1, 1)
        normalized_chi2 == chi2 \div degrees_of_freedom
        score == IF normalized_chi2 < 1000 THEN Unit
                 ELSE IF normalized_chi2 < 50 * 1000 THEN ExpNeg(normalized_chi2)
                 ELSE (Unit * 100000) \div (100000 + normalized_chi2)
    IN  IF n = 0 THEN Unit \div 100
        ELSE Max(Unit \div 100, Min(Unit, score))

\* heuristic_score(text, resources)
heuristic_score(text0, resources) ==
    LET text == lower(text0)
        length == Max(Len(text), 1)
        words == split(text)
        word_count == Len(words)
        vocab == Get(resources, "vocab", {})
        bigrams == Get(resources, "bigrams", EmptyTable)
        trigrams == Get(resources, "trigrams", EmptyTable)
        stopwords == Get(resources, "stopwords", {})
        \* 1: word-based features
        vr == IF vocab # {} THEN valid_word_ratio(text, vocab) ELSE 0
        sw == stopwords_count(text, stopwords)
        sw_norm == IF word_count > 0
                   THEN Min((sw * Unit) \div Max(word_count, 1), Unit) ELSE 0
        \* 2: n-gram likelihood
        tri_avg == ngram_likelihood(text, trigrams, 3) \div Max(Len(text) - 2, 1)
        bi_avg == ngram_likelihood(text, bigrams, 2) \div Max(Len(text) - 1, 1)
        ng_norm ==
            IF trigrams # EmptyTable /\ Len(text) >= 3
            THEN IF tri_avg > 0 - 3 * Unit THEN Unit
                 ELSE IF tri_avg > 0 - 10 * Unit
                      THEN Max(0, Unit + (tri_avg + 3 * Unit) \div 7)
                      ELSE 0
            ELSE IF bigrams # EmptyTable /\ Len(text) >= 2
            THEN IF bi_avg > 0 - 2 * Unit THEN Unit
                 ELSE IF bi_avg > 0 - 8 * Unit
                      THEN Max(0, Unit + (bi_avg + 2 * Unit) \div 6)
                      ELSE 0
            ELSE 0
        \* 3: letter frequency, against the default (English) table
        freq_score == chi_squared_letter_score(text, ENGLISH_LETTER_FREQ)
        \* 4: entropy
        letters_only == SelectSeq(text, IsAlpha)
        ent_score == IF Len(letters_only) > 0
                     THEN Max(0, Unit - Abs(character_entropy(letters_only) - 4 * Unit) \div 2)
                     ELSE 0
        \* 5: common letter patterns
        pattern_count ==
            Cardinality({i \in 1..Len(common_patterns) : Contains(text, common_patterns[i])})
        pattern_score == Min(Unit, (pattern_count * 20 * Unit) \div Max(length, 20))
        \* 6: length-aware weighting
        is_single_word == word_count = 1
        is_short == length < 30
        score ==
            IF is_single_word
            THEN (50 * freq_score + 30 * vr + 15 * pattern_score + 5 * ent_score) \div 100
            ELSE IF is_short
            THEN (35 * freq_score + 30 * vr + 20 * ng_norm + 10 * sw_norm
                    + 5 * ent_score) \div 100
            ELSE (40 * vr + 30 * ng_norm + 15 * freq_score + 10 * sw_norm
                    + 5 * ent_score) \div 100
    IN  Min(Unit, Max(Unit \div 100, score))

\* ------------------------------------------------------------------------
\* crypto/scoring.py: loading.  A file is the value Unreadable (missing or
\* corrupt: open or read raises) or its content: a sequence of lines for a
\* word list, a text for the sample corpus.
\* ------------------------------------------------------------------------

Unreadable == <<"unreadable">>

\* load_wordlist, given the lines of a readable file
load_wordlist(lines) ==
    {lower(strip(lines[i])) : i \in {j \in 1..Len(lines) : strip(lines[j]) # <<>>}}

\* load_ngrams, given the text of a readable file: the natural logarithm of
\* the relative frequency of every window of length n of the lowercased text.
load_ngrams(content, n) ==
    LET text == lower(content)
        total == Max(Len(text) - n + 1, 0)
        gram(i) == SubSeq(text, i, i + n - 1)
        grams == {gram(i) : i \in 1..total}
        count(g) == Cardinality({i \in 1..total : gram(i) = g})
    IN  [g \in grams |-> LnRatio(count(g), total)]

\* ------------------------------------------------------------------------
\* The files of the data directory.  They are not part of the sources: the
\* model fixes a small content for each and lets every read succeed or fail.
\* ------------------------------------------------------------------------

Langs == {"en", "fr"}

WordsPath(lang) == <<"words", lang>>

StopwordsPath(lang) == <<"stopwords", lang>>

SamplePath == <<"sample_plain">>

\* The files get_resources(lang) opens.
FilesOf(lang) == {WordsPath(lang), StopwordsPath(lang), SamplePath}

FileContent(path) ==
    IF path = WordsPath("en")
    THEN << <<"a">>, <<"I","'","d"," ">>, <<>>, <<"i","d">>,
            <<"n","o","w","h","e","r","e">>, <<"a","b","j","u","r","e","r","€">> >>
    ELSE IF path = WordsPath("fr")
    THEN << <<"a">>, <<"y">>, <<"d","'">> >>
    ELSE IF path = StopwordsPath("en")
    THEN << <<"a">>, <<"t","o">> >>
    ELSE IF path = StopwordsPath("fr")
    THEN << <<"a">>, <<"j","e">> >>
    ELSE <<"T","o"," ","d","o"," ","i","t">>

\* A disk is the set of the files that can be read at the time of the call.
ReadFile(disk, path) == IF path \in disk THEN FileContent(path) ELSE Unreadable

\* ------------------------------------------------------------------------
\* app.py: get_resources
\* ------------------------------------------------------------------------

\* The dict get_resources stores in CACHE[lang] on a miss.
ResourceBundle(lang, disk) ==
    LET wordsFile == ReadFile(disk, WordsPath(lang))
        stopFile  == ReadFile(disk, StopwordsPath(lang))
        sample    == ReadFile(disk, SamplePath)
        vocab0    == load_wordlist(wordsFile)
        tokens    == split(sample)
        sample_words ==
            {w \in {lower(strip(tokens[i])) : i \in 1..Len(tokens)} :
                \E j \in 1..Len(w) : IsAlpha(w[j])}
    IN  IF wordsFile = Unreadable \/ stopFile = Unreadable
        THEN [vocab |-> {}, stopwords |-> {}]
        ELSE [vocab     |-> IF sample = Unreadable THEN vocab0
                            ELSE {lower(w) : w \in vocab0} \cup sample_words,
              stopwords |-> load_wordlist(stopFile),
              bigrams   |-> IF sample = Unreadable THEN EmptyTable
                            ELSE load_ngrams(sample, 2),
              trigrams  |-> IF sample = Unreadable THEN EmptyTable
                            ELSE load_ngrams(sample, 3)]

\* get_resources without the cache lookup: every call loads the files again.
GetResourcesNoCache(cache, lang, disk) ==
    LET bundle == ResourceBundle(lang, disk)
    IN  [cache |-> [l \in DOMAIN cache \cup {lang} |->
                       IF l = lang THEN bundle ELSE cache[l]],
         resources |-> bundle,
         loads |-> 1]

\* get_resources(lang) on the cache `cache` with the disk `disk`: the cache it
\* leaves, the bundle it returns and the number of load attempts it makes.
get_resources(cache, lang, disk) ==
    IF lang \in DOMAIN cache
    THEN [cache |-> cache, resources |-> cache[lang], loads |-> 0]
    ELSE LET bundle == ResourceBundle(lang, disk)
         IN  [cache |-> [l \in DOMAIN cache \cup {lang} |->
                            IF l = lang THEN bundle ELSE cache[l]],
              resources |-> bundle,
              loads |-> 1]

\* ------------------------------------------------------------------------
\* app.py: analyze
\* ------------------------------------------------------------------------

\* COMMON_WORDS of analyze
COMMON_WORDS_en ==
    { <<"t","h","e">>, <<"a","n","d">>, <<"i","s">>, <<"t","o">>,
       <<"o","f">>, <<"y","o","u">>, <<"h","e","l","l","o">>, <<"t","h","a","t">>,
       <<"i","n">>, <<"i","t">>, <<"d","o","g">>, <<"c","a","t">>,
       <<"t","h","i","s">>, <<"m","e","s","s","a","g","e">>, <<"s","e","c","r","e","t">>, <<"w","o","r","d">>,
       <<"t","e","x","t">>, <<"c","o","d","e">> }

COMMON_WORDS_fr ==
    { <<"l","e">>, <<"l","a">>, <<"e","t">>, <<"d","e">>,
       <<"u","n">>, <<"b","o","n","j","o","u","r">>, <<"j","e">>, <<"t","u">>,
       <<"i","l">>, <<"e","l","l","e">>, <<"n","o","u","s">>, <<"v","o","u","s">>,
       <<"m","e","s","s","a","g","e">>, <<"s","e","c","r","e","t">>, <<"m","o","t">>, <<"t","e","x","t","e">>,
       <<"c","o","d","e">> }

COMMON_WORDS(lang) == IF lang = "fr" THEN COMMON_WORDS_fr ELSE COMMON_WORDS_en

\* The floor of a computed score, 0.01, in units of 1/10000.
ScoreFloor == Unit \div 100

\* The score substituted at output time, 0.0001, in units of 1/10000.
OutputFloor == Unit \div 10000

\* BlendScore with the bonus of an exact dictionary match weighted 0.5 instead
\* of 0.05.
BlendScoreHeavyBonus(is_single_word, is_dict_match, h_score, word_score, freq_score) ==
    IF is_single_word
    THEN IF is_dict_match
         THEN 95 * Unit + freq_score * 50
         ELSE LET score == freq_score * 65 + h_score * 35
              IN  IF score < 20 * Unit THEN (score * 3) \div 10 ELSE score
    ELSE IF word_score > (7 * Unit) \div 10
         THEN word_score * 55 + h_score * 30 + freq_score * 15
    ELSE IF word_score > (4 * Unit) \div 10
         THEN word_score * 45 + h_score * 35 + freq_score * 20
    ELSE IF word_score > 0
         THEN word_score * 30 + h_score * 40 + freq_score * 30
    ELSE freq_score * 55 + h_score * 45

\* BlendScore without the branch of the exact dictionary match: a single word
\* is always scored from its letter frequencies and the heuristic.
BlendScoreNoMatchBranch(is_single_word, is_dict_match, h_score, word_score, freq_score) ==
    IF is_single_word
    THEN LET score == freq_score * 65 + h_score * 35
         IN  IF score < 20 * Unit THEN (score * 3) \div 10 ELSE score
    ELSE IF word_score > (7 * Unit) \div 10
         THEN word_score * 55 + h_score * 30 + freq_score * 15
    ELSE IF word_score > (4 * Unit) \div 10
         THEN word_score * 45 + h_score * 35 + freq_score * 20
    ELSE IF word_score > 0
         THEN word_score * 30 + h_score * 40 + freq_score * 30
    ELSE freq_score * 55 + h_score * 45

\* Lines 151-177: the blend of the features, in units of 1/1000000 (the
\* features are in units of 1/10000 and the weights in hundredths).
BlendScore(is_single_word, is_dict_match, h_score, word_score, freq_score) ==
    IF is_single_word
    THEN IF is_dict_match
         THEN 95 * Unit + freq_score * 5
         ELSE LET score == freq_score * 65 + h_score * 35
              IN  IF score < 20 * Unit THEN (score * 3) \div 10 ELSE score
    ELSE IF word_score > (7 * Unit) \div 10
         THEN word_score * 55 + h_score * 30 + freq_score * 15
    ELSE IF word_score > (4 * Unit) \div 10
         THEN word_score * 45 + h_score * 35 + freq_score * 20
    ELSE IF word_score > 0
         THEN word_score * 30 + h_score * 40 + freq_score * 30
    ELSE freq_score * 55 + h_score * 45

\* Lines 179-189: from the blend (units of 1/1000000) to final_score (units of
\* 1/10000).  Fixed-point values are never NaN or infinite.
FinalScore(blend) ==
    LET score   == IF blend < 0 THEN ScoreFloor * 100 ELSE blend
        floored == Max(ScoreFloor * 100, score)
        final_score == Round4(floored)
    IN  IF final_score <= 0 THEN OutputFloor ELSE final_score

\* The body of the try block of the candidate loop (lines 135-199).
ScoreCandidate(k, plaintext, resources, augmented_vocab, expected_freq, is_single_word) ==
    LET h_score == heuristic_score(plaintext, resources)
        word_score == IF augmented_vocab # {}
                      THEN valid_word_ratio(plaintext, augmented_vocab) ELSE 0
        freq_score == chi_squared_letter_score(plaintext, expected_freq)
        plaintext_lower == lower(strip(plaintext))
        is_dict_match == plaintext_lower \in augmented_vocab
    IN  [key |-> k, plaintext |-> plaintext,
         score |-> FinalScore(BlendScore(is_single_word, is_dict_match,
                                         h_score, word_score, freq_score))]

\* The except block of the candidate loop (lines 200-209).
FailedCandidate(k, plaintext) ==
    [key |-> k, plaintext |-> plaintext, score |-> OutputFloor]

\* An insertion that puts an element before the elements of equal score: the
\* sort is no longer stable.
RECURSIVE InsertBeforeEqual(_, _)
InsertBeforeEqual(sorted, c) ==
    IF sorted = <<>> THEN <<c>>
    ELSE IF Head(sorted).score > c.score
         THEN <<Head(sorted)>> \o InsertBeforeEqual(Tail(sorted), c)
         ELSE <<c>> \o sorted

\* candidates.sort(key=lambda x: x['score'], reverse=True): a stable sort, by
\* insertion of each element behind the elements that score at least as much.
RECURSIVE InsertByScore(_, _)
InsertByScore(sorted, c) ==
    IF sorted = <<>> THEN <<c>>
    ELSE IF Head(sorted).score >= c.score
         THEN <<Head(sorted)>> \o InsertByScore(Tail(sorted), c)
         ELSE <<c>> \o sorted

RECURSIVE SortUpTo(_, _)
SortUpTo(candidates, n) ==
    IF n = 0 THEN <<>>
    ELSE InsertByScore(SortUpTo(candidates, n - 1), candidates[n])

SortByScore(candidates) == SortUpTo(candidates, Len(candidates))

\* text[:n]
Prefix(text, n) == SubSeq(text, 1, Min(Len(text), n))

\* Lines 223-229 and 234-236: a score that is not positive becomes 0.0001.
PositiveScore(score) == IF score <= 0 THEN OutputFloor ELSE score

\* ------------------------------------------------------------------------
\* Bounded inputs of the shift transform
\* ------------------------------------------------------------------------

\* Longest text handed to encrypt / decrypt / brute_force_caesar.
MaxLen == 2

\* Keys range over -MaxKey..MaxKey: negative keys and keys above 26 included.
MaxKey == 27

\* Letters at both ends of both alphabets, a digit, punctuation, a space, an
\* accented letter and a symbol outside the basic plane (the padlock emoji of
\* the tests, written by its code point).
ShiftChars == {"a", "z", "A", "Z", "m", "1", ",", " ", "é", "U+1F510"}

RECURSIVE TextsUpTo(_, _)
TextsUpTo(chars, n) ==
    IF n = 0 THEN {<<>>}
    ELSE LET shorter == TextsUpTo(chars, n - 1)
         IN  shorter \cup {Append(t, c) : t \in shorter, c \in chars}

ShiftTexts == TextsUpTo(ShiftChars, MaxLen)

ShiftKeys == (0 - MaxKey)..MaxKey

\* ------------------------------------------------------------------------
\* Bounded inputs of /analyze
\* ------------------------------------------------------------------------

\* Longest cipherText of which every text over RequestChars is sent.
MaxCipherLen == 2

RequestChars == {"i", "d", " "}

\* Longer or special requests: an apostrophe inside a token, two and three
\* tokens, an uppercase letter, a digit, an accented letter, surrounding
\* whitespace, a word of the English word list that ends with a symbol.
LongerTexts ==
    { <<"i","'","d">>, <<"d","'">>, <<"i"," ","i">>, <<"i"," ","d">>,
      <<"i"," ","d"," ","d">>, <<"I","d">>, <<"i","1">>, <<"d","é">>,
      <<"\t","i","d","\n">>, <<"a","b","j","u","r","e","r","€">> }

\* data.get('cipherText', '') when the key is absent, and when its value is null.
Absent == <<"absent">>

Null == <<"null">>

CipherTextInputs ==
    {Absent, Null} \cup TextsUpTo(RequestChars, MaxCipherLen) \cup LongerTexts

\* "auto" stands for every value other than 'en' and 'fr'.
LangInputs == {"en", "fr", "auto"}

\* The sets of keys whose scoring may raise in one request.
FaultSets == {{}, {0}, {1, AlphabetSize - 1}, 0..(AlphabetSize - 1)}

AllFiles == UNION {FilesOf(l) : l \in Langs}

VARIABLES
    lib,        \* the call of the shift-transform library under way, and its results
    phase,      \* "boot", "idle" (waiting for a request) or "responded"
    CACHE,      \* app.CACHE: language -> resource bundle
    loads,      \* per language, the number of times its files were loaded
    request,    \* the request being answered
    candidates, \* the list `candidates` of analyze after the scoring loop
    ranked,     \* the list `candidates` of analyze after the sort
    response,   \* the response of analyze
    threads,    \* per concurrent request, its position in get_resources and its locals
    heap        \* the bundle objects built by concurrent requests, by identity

vars == <<lib, phase, CACHE, loads, request, candidates, ranked, response,
          threads, heap>>

server == <<phase, CACHE, loads, request, candidates, ranked, response,
            threads, heap>>

NoText == <<"none">>

NoRequest == [cipherText |-> Absent, lang |-> "none", faults |-> {},
              disk |-> {}, loaded |-> FALSE]

NoResponse == [status |-> 0]

EmptyCache == <<>>

\* Number of requests served concurrently.
NumThreads == 2

Threads == 1..NumThreads

NoRef == 0

IdleThread == [pc |-> "idle", lang |-> "none", ret |-> NoRef, seen |-> <<>>]

ServerInit ==
    /\ phase = "boot"
    /\ CACHE = EmptyCache
    /\ loads = [l \in Langs |-> 0]
    /\ request = NoRequest
    /\ candidates = <<>>
    /\ ranked = <<>>
    /\ response = NoResponse
    /\ threads = [t \in Threads |-> IdleThread]
    /\ heap = <<>>

LibIdle == [op |-> "start", text |-> <<>>, k |-> 0, out |-> NoText,
            back |-> NoText, candidates |-> <<>>]

\* ------------------------------------------------------------------------
\* The shift transform as a state machine: a caller picks a text and a key,
\* then calls encrypt, decrypt (also on an encrypt result) or
\* brute_force_caesar.
\* ------------------------------------------------------------------------

LibInit ==
    /\ \E t \in ShiftTexts, k \in ShiftKeys :
          lib = [op |-> "start", text |-> t, k |-> k, out |-> NoText,
                 back |-> NoText, candidates |-> <<>>]
    /\ ServerInit

Encrypt ==
    /\ lib.op = "start"
    /\ lib' = [lib EXCEPT !.op = "encrypt", !.out = encrypt(lib.text, lib.k)]
    /\ UNCHANGED server

Decrypt ==
    /\ lib.op = "start"
    /\ lib' = [lib EXCEPT !.op = "decrypt", !.out = decrypt(lib.text, lib.k)]
    /\ UNCHANGED server

DecryptEncrypted ==
    /\ lib.op = "encrypt"
    /\ lib' = [lib EXCEPT !.op = "roundtrip", !.back = decrypt(lib.out, lib.k)]
    /\ UNCHANGED server

BruteForce ==
    /\ lib.op = "start"
    /\ lib' = [lib EXCEPT !.op = "bruteforce",
                          !.candidates = brute_force_caesar(lib.text)]
    /\ UNCHANGED server

LibNext == Encrypt \/ Decrypt \/ DecryptEncrypted \/ BruteForce

SpecCaesar == LibInit /\ [][LibNext]_vars

\* ------------------------------------------------------------------------
\* The feature extractors of crypto/scoring.py as a state machine: a caller
\* picks a text and a resource bundle, then calls one of them.
\* ------------------------------------------------------------------------

\* Longest text handed to a feature extractor.
MaxScoreLen == 3

\* Letters that spell the words "to" and "do" of the vocabulary, an uppercase
\* and an accented letter, a digit, the underscore, a space and a symbol of
\* the basic plane.
ScoreChars == {"t", "o", "D", "é", "1", "_", " ", "€"}

\* n copies of the text t, one after the other
RECURSIVE Repeat(_, _)
Repeat(t, n) == IF n = 0 THEN <<>> ELSE t \o Repeat(t, n - 1)

\* Texts of 30 characters or more, which heuristic_score weights as long
\* texts: words of the vocabulary, words outside it, no letter at all.
LongScoreTexts ==
    {Repeat(<<"t", "o", " ">>, 10), Repeat(<<"D", "é", "1", " ">>, 8),
     Repeat(<<"1", " ", "€">>, 10)}

ScoreTexts == TextsUpTo(ScoreChars, MaxScoreLen) \cup LongScoreTexts

\* The bundles get_resources can build, each with its language.
ScoreBundles ==
    UNION {{[lang |-> l, resources |-> ResourceBundle(l, d)] :
               d \in {FilesOf(l), FilesOf(l) \ {SamplePath}, {}}} : l \in Langs}

NoScore == 0 - 1

ScoringInit ==
    /\ \E t \in ScoreTexts, b \in ScoreBundles :
          lib = [op |-> "start", text |-> t, lang |-> b.lang,
                 resources |-> b.resources, out |-> NoScore]
    /\ ServerInit

\* chi_squared_letter_score(text, expected), expected being the table of the
\* language (the default, None, is the English table)
ChiSquared ==
    /\ lib.op = "start"
    /\ lib' = [lib EXCEPT !.op = "chi_squared_letter_score",
                          !.out = chi_squared_letter_score(lib.text,
                                      IF lib.lang = "fr" THEN FRENCH_LETTER_FREQ
                                      ELSE ENGLISH_LETTER_FREQ)]
    /\ UNCHANGED server

\* heuristic_score(text, resources)
Heuristic ==
    /\ lib.op = "start"
    /\ lib' = [lib EXCEPT !.op = "heuristic_score",
                          !.out = heuristic_score(lib.text, lib.resources)]
    /\ UNCHANGED server

\* valid_word_ratio(text, vocab), vocab being the vocabulary of the bundle
ValidWordRatio ==
    /\ lib.op = "start"
    /\ lib' = [lib EXCEPT !.op = "valid_word_ratio",
                          !.out = valid_word_ratio(lib.text,
                                                   Get(lib.resources, "vocab", {}))]
    /\ UNCHANGED server

ScoringNext == ChiSquared \/ Heuristic \/ ValidWordRatio

SpecScoring == ScoringInit /\ [][ScoringNext]_vars

\* ------------------------------------------------------------------------
\* The web application as a state machine
\* ------------------------------------------------------------------------

Init ==
    /\ lib = LibIdle
    /\ ServerInit

\* The module imported by a WSGI server: nothing is preloaded.
Import ==
    /\ phase = "boot"
    /\ phase' = "idle"
    /\ UNCHANGED <<lib, CACHE, loads, request, candidates, ranked, response,
                    threads, heap>>

\* The module run as a script (lines 252-257): both languages are preloaded.
Main ==
    /\ phase = "boot"
    /\ \E disk \in SUBSET AllFiles :
          LET en == get_resources(CACHE, "en", disk)
              fr == get_resources(en.cache, "fr", disk)
          IN  /\ CACHE' = fr.cache
              /\ loads' = [loads EXCEPT !["en"] = @ + en.loads, !["fr"] = @ + fr.loads]
    /\ phase' = "idle"
    /\ UNCHANGED <<lib, request, candidates, ranked, response, threads, heap>>

\* The cipherText taken as sent, without strip().
CipherTextNotStripped(cipherText) ==
    IF cipherText = Absent THEN <<>> ELSE cipherText

\* Lines 83-84: data.get('cipherText', '').strip(), for a value that is absent
\* or a string
CipherText(cipherText) ==
    IF cipherText = Absent THEN <<>> ELSE strip(cipherText)

\* Lines 90-96
NormalLang(lang) == IF lang \notin {"en", "fr"} THEN "en" ELSE lang

\* Lines 131-209: the scoring loop over the candidates bf, the scoring of the
\* keys in faults raising an exception.
RECURSIVE ScoreAll(_, _, _, _, _, _)
ScoreAll(bf, i, resources, augmented_vocab, expected_freq, is_single_word) ==
    IF i > Len(bf) THEN <<>>
    ELSE <<ScoreCandidate(bf[i][1], bf[i][2], resources, augmented_vocab,
                          expected_freq, is_single_word)>>
         \o ScoreAll(bf, i + 1, resources, augmented_vocab, expected_freq,
                     is_single_word)

\* A scoring loop without the try block: the first exception ends the loop.
WithFaultsAborting(scored, faults) ==
    LET bad == {i \in 1..Len(scored) : scored[i].key \in faults}
    IN  IF bad = {} THEN scored
        ELSE SubSeq(scored, 1, (CHOOSE i \in bad : \A j \in bad : i <= j) - 1)

WithFaults(scored, faults) ==
    [i \in 1..Len(scored) |->
        IF scored[i].key \in faults
        THEN FailedCandidate(scored[i].key, scored[i].plaintext)
        ELSE scored[i]]

\* Lines 211-244: the response for the scored list (sorted: the list after
\* the sort).
Ranking(cipher_text, sorted) ==
    LET best == sorted[1]
        top_5 == [i \in 1..Min(Len(sorted), 5) |->
                     [sorted[i] EXCEPT !.score = PositiveScore(@)]]
    IN  [status |-> 200,
         cipher |-> Prefix(cipher_text, 500),
         key |-> best.key,
         plainText |-> Prefix(best.plaintext, 500),
         score |-> PositiveScore(best.score),
         candidates |-> top_5]

\* POST /analyze with the JSON body {cipherText, lang}.
Analyze ==
    /\ phase = "idle"
    /\ phase' = "responded"
    /\ UNCHANGED <<lib, threads, heap>>
    /\ \E cipherText \in CipherTextInputs, lang0 \in LangInputs :
          IF cipherText = Null
          THEN \* None.strip() raises: the outer except answers 500
               /\ request' = [cipherText |-> cipherText, lang |-> lang0, faults |-> {},
                              disk |-> {}, loaded |-> FALSE]
               /\ response' = [status |-> 500, error |-> "AttributeError"]
               /\ UNCHANGED <<CACHE, loads, candidates, ranked>>
          ELSE
          LET cipher_text == CipherText(cipherText)
              lang == NormalLang(lang0)
          IN  IF cipher_text = <<>>
              THEN /\ request' = [cipherText |-> cipherText, lang |-> lang0,
                                  faults |-> {}, disk |-> {}, loaded |-> FALSE]
                   /\ response' = [status |-> 400, error |-> "Empty cipher text"]
                   /\ UNCHANGED <<CACHE, loads, candidates, ranked>>
              ELSE \E disk \in (IF lang \in DOMAIN CACHE THEN {{}}
                                ELSE SUBSET FilesOf(lang)) :
                   \E got \in {get_resources(CACHE, lang, disk)} :
                   LET resources == got.resources
                       vocab == Get(resources, "vocab", {})
                       words == split(cipher_text)
                       is_single_word == Len(words) = 1 /\ MatchesWordOnly(cipher_text)
                       augmented_vocab == {lower(w) : w \in vocab} \cup COMMON_WORDS(lang)
                       expected_freq == IF lang = "fr" THEN FRENCH_LETTER_FREQ
                                        ELSE ENGLISH_LETTER_FREQ
                   IN  \* the scoring loop runs once; each set of faulty keys is
                       \* one way it may go
                       \E scored \in {ScoreAll(brute_force_caesar(cipher_text), 1,
                                               resources, augmented_vocab,
                                               expected_freq, is_single_word)} :
                       \E faults \in FaultSets :
                       \E list \in {WithFaults(scored, faults)} :
                       \E sorted \in {SortByScore(list)} :
                           /\ request' = [cipherText |-> cipherText, lang |-> lang0,
                                          faults |-> faults, disk |-> disk,
                                          loaded |-> got.loads = 1]
                           /\ CACHE' = got.cache
                           /\ loads' = [loads EXCEPT ![lang] = @ + got.loads]
                           /\ candidates' = list
                           /\ ranked' = sorted
                           /\ response' = IF list = <<>>
                                          THEN [status |-> 500,
                                                error |-> "No candidates generated"]
                                          ELSE Ranking(cipher_text, sorted)

\* The response is sent; the handler's locals are gone.
SendResponse ==
    /\ phase = "responded"
    /\ phase' = "idle"
    /\ request' = NoRequest
    /\ candidates' = <<>>
    /\ ranked' = <<>>
    /\ response' = NoResponse
    /\ UNCHANGED <<lib, CACHE, loads, threads, heap>>

Next == Import \/ Main \/ Analyze \/ SendResponse

Spec == Init /\ [][Next]_vars

\* ------------------------------------------------------------------------
\* get_resources called by requests served concurrently (a threaded WSGI
\* server that imported the module: nothing is preloaded).  A bundle is a
\* dict object: heap maps the identity of each object (that of the thread
\* that built it) to its contents, and CACHE maps a language to the identity
\* of its bundle.  A step is what one thread does between two accesses to
\* CACHE.
\* ------------------------------------------------------------------------

RaceInit ==
    /\ lib = LibIdle
    /\ ServerInit

\* CACHE[lang] = ref (the store of lines 57 and 65) with setdefault: an entry
\* that exists is kept.
BindIfAbsent(cache, lang, ref) ==
    [l \in DOMAIN cache \cup {lang} |->
        IF l \in DOMAIN cache THEN cache[l] ELSE ref]

\* CACHE[lang] = ref: the store of lines 57 and 65
Bind(cache, lang, ref) ==
    [l \in DOMAIN cache \cup {lang} |-> IF l = lang THEN ref ELSE cache[l]]

\* A request enters get_resources(lang) (line 99, with the lang of lines 85-96).
Call(t) ==
    /\ threads[t].pc = "idle"
    /\ \E lang \in Langs :
          threads' = [threads EXCEPT ![t] = [@ EXCEPT !.pc = "check", !.lang = lang]]
    /\ UNCHANGED <<lib, phase, CACHE, loads, request, candidates, ranked, response, heap>>

\* Line 31: if lang in CACHE
Check(t) ==
    /\ threads[t].pc = "check"
    /\ threads' = [threads EXCEPT ![t] =
                      [@ EXCEPT !.pc = IF threads[t].lang \in DOMAIN CACHE THEN "return" ELSE "load"]]
    /\ UNCHANGED <<lib, phase, CACHE, loads, request, candidates, ranked, response, heap>>

\* Lines 34-55 and 63-64, then the dict display of lines 57-62 or 65: the
\* files are read into locals and the bundle object is built; nothing is
\* stored in CACHE yet.
Load(t) ==
    /\ threads[t].pc = "load"
    /\ \E disk \in SUBSET FilesOf(threads[t].lang) :
          heap' = [r \in DOMAIN heap \cup {t} |->
                      IF r = t THEN ResourceBundle(threads[t].lang, disk) ELSE heap[r]]
    /\ loads' = [loads EXCEPT ![threads[t].lang] = @ + 1]
    /\ threads' = [threads EXCEPT ![t] = [@ EXCEPT !.pc = "store"]]
    /\ UNCHANGED <<lib, phase, CACHE, request, candidates, ranked, response>>

\* The subscript store of lines 57 and 65
Store(t) ==
    /\ threads[t].pc = "store"
    /\ CACHE' = Bind(CACHE, threads[t].lang, t)
    /\ threads' = [threads EXCEPT ![t] = [@ EXCEPT !.pc = "return"]]
    /\ UNCHANGED <<lib, phase, loads, request, candidates, ranked, response, heap>>

\* return CACHE[lang] (lines 32 and 67)
Return(t) ==
    /\ threads[t].pc = "return"
    /\ threads' = [threads EXCEPT ![t] =
                      [@ EXCEPT !.pc = "read", !.ret = CACHE[threads[t].lang]]]
    /\ UNCHANGED <<lib, phase, CACHE, loads, request, candidates, ranked, response, heap>>

\* analyze reads the bundle it was given: resources.get('vocab', set()) of
\* line 100
ReadVocab(t) ==
    /\ threads[t].pc = "read"
    /\ threads' = [threads EXCEPT ![t] =
                      [@ EXCEPT !.pc = "score", !.seen = heap[threads[t].ret]]]
    /\ UNCHANGED <<lib, phase, CACHE, loads, request, candidates, ranked, response, heap>>

\* ... and reads it again in heuristic_score (scoring.py, lines 209-212); the
\* request is then answered.
ReadAgain(t) ==
    /\ threads[t].pc = "score"
    /\ threads' = [threads EXCEPT ![t] =
                      [@ EXCEPT !.pc = "done", !.seen = <<@, heap[threads[t].ret]>>]]
    /\ UNCHANGED <<lib, phase, CACHE, loads, request, candidates, ranked, response, heap>>

RaceNext ==
    \E t \in Threads :
        \/ Call(t)
        \/ Check(t)
        \/ Load(t)
        \/ Store(t)
        \/ Return(t)
        \/ ReadVocab(t)
        \/ ReadAgain(t)

SpecRace == RaceInit /\ [][RaceNext]_vars

\* ------------------------------------------------------------------------
\* Properties
\* ------------------------------------------------------------------------

\* The request being answered got past the validation of cipherText.
Scored == phase = "responded" /\ response.status = 200

\* The language analyze works with, and its stripped cipher text.
RequestLang == NormalLang(request.lang)

RequestText == CipherText(request.cipherText)

\* The vocabulary analyze matches plaintexts against: the cached vocabulary,
\* lowercased, and the common words of the language.
RequestVocab ==
    {lower(w) : w \in Get(CACHE[RequestLang], "vocab", {})} \cup COMMON_WORDS(RequestLang)

\* C1: every score of a response of analyze, the top-level one and that of
\* every returned candidate, is greater than 0 and at most 1, whether the
\* candidate was scored or its scoring raised.
C1_ScoresInRange ==
    Scored =>
        /\ 0 < response.score /\ response.score <= Unit
        /\ \A i \in 1..Len(response.candidates) :
              0 < response.candidates[i].score /\ response.candidates[i].score <= Unit

\* A three-token request some of whose candidates fall in a multi-word band,
\* answered with a top score below 1 while the scoring of key 0 raised.
C1_Witness ==
    /\ Scored
    /\ request.cipherText = <<"i"," ","d"," ","d">>
    /\ request.faults = {0}
    /\ response.score < Unit
    /\ response.score > ScoreFloor

\* C2: the ranking is the scored list sorted by score, highest first, and
\* stably (equal scores stay in ascending key order); the response returns
\* its first min(N, 5) entries and the key, plaintext and score of rank 0.
C2_StableRanking ==
    Scored =>
        /\ Len(ranked) = Len(candidates)
        /\ \A i \in 1..Len(candidates) : \E j \in 1..Len(ranked) : ranked[j] = candidates[i]
        /\ \A i \in 1..Len(ranked) : \A j \in (i + 1)..Len(ranked) :
              \/ ranked[i].score > ranked[j].score
              \/ ranked[i].score = ranked[j].score /\ ranked[i].key < ranked[j].key
        /\ Len(response.candidates) = Min(Len(ranked), 5)
        /\ \A i \in 1..Len(response.candidates) : response.candidates[i] = ranked[i]
        /\ response.key = ranked[1].key
        /\ response.plainText = ranked[1].plaintext
        /\ response.score = ranked[1].score

\* Two candidates tie for the first rank and the sort has moved candidates.
C2_Witness ==
    /\ Scored
    /\ ranked[1].score = ranked[2].score
    /\ ranked[1].key < ranked[2].key
    /\ ranked[2].score > ranked[3].score
    /\ ranked # candidates

C4_RoundTrip ==
    /\ (lib.op = "roundtrip" /\ lib.k \in 0..25) => lib.back = lib.text
    /\ (lib.op \in {"encrypt", "decrypt"} /\ lib.k = 0) => lib.out = lib.text

\* A text with letters that wrap around went through encrypt and decrypt.
C4_Witness ==
    /\ lib.op = "roundtrip"
    /\ lib.k = 3
    /\ lib.text = <<"z", "A">>
    /\ lib.out = <<"c", "D">>
    /\ lib.back = lib.text

\* C5: for every integer key, encrypt keeps the length, leaves every
\* character outside A-Z and a-z where it is, and maps every letter to the
\* letter of the same case that lies key (modulo 26) places further, going
\* round the alphabet.
C5_ShiftShape ==
    lib.op = "encrypt" =>
        /\ Len(lib.out) = Len(lib.text)
        /\ \A i \in 1..Len(lib.text) :
              LET c == lib.text[i]
                  e == lib.out[i]
              IN  /\ c \notin (UpperSet \cup LowerSet) => e = c
                  /\ c \in UpperSet =>
                        e \in UpperSet /\ Offset(e) = (Offset(c) + lib.k) % 26
                  /\ c \in LowerSet =>
                        e \in LowerSet /\ Offset(e) = (Offset(c) + lib.k) % 26

\* A negative key wrapped a letter round and left an accented letter alone.
C5_Witness ==
    /\ lib.op = "encrypt"
    /\ lib.k = 0 - 1
    /\ lib.text = <<"a", "é">>
    /\ lib.out = <<"z", "é">>

\* A cipherText that is absent, empty or made of whitespace only.
BlankInput(cipherText) ==
    \/ cipherText = Absent
    \/ /\ cipherText # Null
       /\ \A i \in 1..Len(cipherText) : cipherText[i] \in Whitespace

\* C6: a request whose cipherText is absent, empty or whitespace-only is
\* answered at once with status 400 and an error: no candidate is generated
\* or scored and the resource cache is neither loaded nor changed.
C6_BlankRejected ==
    [][(phase = "idle" /\ phase' = "responded" /\ BlankInput(request'.cipherText))
          => /\ response'.status = 400
             /\ "error" \in DOMAIN response'
             /\ candidates' = <<>>
             /\ ranked' = <<>>
             /\ CACHE' = CACHE
             /\ loads' = loads]_vars

\* A whitespace-only request was rejected while the cache was still empty.
C6_Witness ==
    /\ phase = "responded"
    /\ request.cipherText = <<" ", " ">>
    /\ response.status = 400
    /\ CACHE = EmptyCache

\* C7 as claimed: for a cipher text that is one whitespace-delimited token,
\* every candidate (whose scoring does not raise) whose lowercased plaintext
\* is an entry of the vocabulary scores at least 0.95 and at most 1.
C7_AnySingleToken ==
    (Scored /\ Len(split(RequestText)) = 1) =>
        \A i \in 1..Len(candidates) :
            (/\ candidates[i].key \notin request.faults
             /\ lower(strip(candidates[i].plaintext)) \in RequestVocab)
            => (candidates[i].score >= 95 * (Unit \div 100)
                /\ candidates[i].score <= Unit)

\* C7 as amended: the same, for a cipher text that is one token made only of
\* word characters (letters, digits, the underscore) and characters of
\* U+0080..U+FFFF.
C7_SingleWordToken ==
    (Scored /\ Len(split(RequestText)) = 1 /\ MatchesWordOnly(RequestText)) =>
        \A i \in 1..Len(candidates) :
            (/\ candidates[i].key \notin request.faults
             /\ lower(strip(candidates[i].plaintext)) \in RequestVocab)
            => (candidates[i].score >= 95 * (Unit \div 100)
                /\ candidates[i].score <= Unit)

\* The request "id" in English: its decryption "to" with key 15 is a common
\* word and is scored as an exact match.
C7_Witness ==
    /\ Scored
    /\ request.cipherText = <<"i", "d">>
    /\ RequestLang = "en"
    /\ request.faults = {}
    /\ candidates[16].plaintext = <<"t", "o">>
    /\ candidates[16].plaintext \in RequestVocab
    /\ candidates[16].score >= 95 * (Unit \div 100)

\* C8: whatever set of candidates fails to be scored, the scored list has one
\* entry for each key 0..25 in order, with its plaintext; a failed candidate
\* has the score 0.0001, every other one a computed score (0.01 or more), and
\* the request is answered with a ranking.
C8_FaultsContained ==
    (phase = "responded" /\ response.status # 400 /\ request.cipherText # Null) =>
        /\ response.status = 200
        /\ Len(candidates) = 26
        /\ \A i \in 1..Len(candidates) :
              /\ candidates[i].key = i - 1
              /\ candidates[i].plaintext = decrypt(RequestText, i - 1)
              /\ candidates[i].key \in request.faults => candidates[i].score = OutputFloor
              /\ candidates[i].key \notin request.faults =>
                    (candidates[i].score >= ScoreFloor /\ candidates[i].score <= Unit)
        /\ Len(ranked) = 26
        /\ Len(response.candidates) = 5

\* The scoring of keys 1 and 25 raised, that of key 0 did not.
C8_Witness ==
    /\ Scored
    /\ request.faults = {1, 25}
    /\ candidates[2].score = OutputFloor
    /\ candidates[26].score = OutputFloor
    /\ candidates[1].score >= ScoreFloor
    /\ response.score >= ScoreFloor

\* C9 as claimed: when a file of the language cannot be loaded, the bundle
\* get_resources builds has an empty set or table for that file only, and
\* holds what every readable file gives; the request is answered.
C9_OnlyFailedDegraded ==
    (Scored /\ request.loaded) =>
        LET bundle == CACHE[RequestLang]
            disk == request.disk
        IN  /\ Get(bundle, "vocab", {}) =
                  (IF WordsPath(RequestLang) \in disk
                   THEN ResourceBundle(RequestLang, FilesOf(RequestLang)).vocab
                   ELSE {})
                  \ (IF SamplePath \in disk THEN {}
                     ELSE ResourceBundle(RequestLang, FilesOf(RequestLang)).vocab
                          \ load_wordlist(FileContent(WordsPath(RequestLang))))
            /\ Get(bundle, "stopwords", {}) =
                  (IF StopwordsPath(RequestLang) \in disk
                   THEN load_wordlist(FileContent(StopwordsPath(RequestLang)))
                   ELSE {})
            /\ Get(bundle, "bigrams", EmptyTable) =
                  (IF SamplePath \in disk THEN load_ngrams(FileContent(SamplePath), 2)
                   ELSE EmptyTable)
            /\ Get(bundle, "trigrams", EmptyTable) =
                  (IF SamplePath \in disk THEN load_ngrams(FileContent(SamplePath), 3)
                   ELSE EmptyTable)

\* C10: once a language is in the cache, no step loads its files again or
\* changes its bundle, so its files are loaded at most once; a request for a
\* cached language is answered from the cache.
C10_LoadedOnce ==
    [][/\ \A l \in DOMAIN CACHE :
             l \in DOMAIN CACHE' /\ CACHE'[l] = CACHE[l] /\ loads'[l] = loads[l]
       /\ \A l \in Langs :
             /\ loads'[l] <= 1
             /\ (loads'[l] = 1) = (l \in DOMAIN CACHE')
       /\ (phase' = "responded" /\ response'.status = 200
              /\ NormalLang(request'.lang) \in DOMAIN CACHE)
             => ~request'.loaded]_vars

\* A request was answered from a cached bundle whose loading had failed.
C10_Witness ==
    /\ Scored
    /\ ~request.loaded
    /\ loads[RequestLang] = 1
    /\ CACHE[RequestLang] = [vocab |-> {}, stopwords |-> {}]

\* A bundle as get_resources builds it: the four entries of lines 57-62 or
\* the two of line 65.
CompleteBundle(b) ==
    DOMAIN b \in {{"vocab", "stopwords", "bigrams", "trigrams"}, {"vocab", "stopwords"}}

\* C11: when requests race to populate the cache, at every step every cache
\* entry and every bundle handed to a caller is a fully built bundle, a
\* bundle object never changes once it is built (so not while it is read),
\* no entry is removed, and a store leaves the language bound to the bundle
\* of the thread that stored last.
C11_RaceSafe ==
    [][/\ \A l \in DOMAIN CACHE' :
             CACHE'[l] \in DOMAIN heap' /\ CompleteBundle(heap'[CACHE'[l]])
       /\ \A t \in Threads :
             /\ threads'[t].pc \in {"read", "score", "done"} =>
                   /\ threads'[t].ret \in DOMAIN heap'
                   /\ CompleteBundle(heap'[threads'[t].ret])
             /\ threads'[t].pc = "done" =>
                   threads'[t].seen = <<heap'[threads'[t].ret], heap'[threads'[t].ret]>>
             /\ (threads[t].pc = "store" /\ threads'[t].pc = "return") =>
                   CACHE'[threads[t].lang] = t
       /\ \A r \in DOMAIN heap : r \in DOMAIN heap' /\ heap'[r] = heap[r]
       /\ \A l \in DOMAIN CACHE : l \in DOMAIN CACHE']_vars

\* Two requests raced on the empty cache for English and built different
\* bundles; the second store won, and the first request was handed the
\* bundle of the second.
C11_Witness ==
    /\ threads[1].lang = "en" /\ threads[2].lang = "en"
    /\ threads[1].pc = "done" /\ threads[2].pc = "done"
    /\ loads["en"] = 2
    /\ heap[1] # heap[2]
    /\ CACHE["en"] = 2
    /\ threads[1].ret = 2
    /\ DOMAIN heap[1] # DOMAIN heap[2]

\* C12: for every text (the empty one and those without a letter too) and
\* every bundle, chi_squared_letter_score and heuristic_score return a value
\* between 0.01 and 1.0, and chi_squared_letter_score returns exactly 0.01
\* for a text without an alphabetic character.
C12_ComponentFloors ==
    /\ lib.op \in {"chi_squared_letter_score", "heuristic_score"} =>
          (lib.out >= Unit \div 100 /\ lib.out <= Unit)
    /\ (lib.op = "chi_squared_letter_score" /\ SelectSeq(lib.text, IsAlpha) = <<>>) =>
          lib.out = Unit \div 100

\* chi_squared_letter_score was called on a non-empty text without a letter.
C12_Witness ==
    /\ lib.op = "chi_squared_letter_score"
    /\ lib.text = <<"1", "€", " ">>
    /\ lib.out = Unit \div 100

\* The tokens the statement describes: the maximal runs of alphabetic
\* characters of the text from position i on, cur being the run under way.
RECURSIVE AlphaRunsFrom(_, _, _)
AlphaRunsFrom(text, i, cur) ==
    IF i > Len(text) THEN (IF cur = <<>> THEN <<>> ELSE <<cur>>)
    ELSE IF IsAlpha(text[i]) THEN AlphaRunsFrom(text, i + 1, Append(cur, text[i]))
    ELSE (IF cur = <<>> THEN <<>> ELSE <<cur>>) \o AlphaRunsFrom(text, i + 1, <<>>)

\* C14: valid_word_ratio returns the number of maximal runs of alphabetic
\* characters of the text that are in the vocabulary (case ignored), divided
\* by the number of runs, every non-letter being a separator; 0 when there is
\* no run or the vocabulary is empty; a value in [0, 1].
C14_AlphaRunRatio ==
    lib.op = "valid_word_ratio" =>
        LET vocabulary == {lower(w) : w \in Get(lib.resources, "vocab", {})}
            tokens == AlphaRunsFrom(lower(lib.text), 1, <<>>)
            found == Cardinality({i \in 1..Len(tokens) : tokens[i] \in vocabulary})
        IN  /\ lib.out >= 0 /\ lib.out <= Unit
            /\ lib.out = IF vocabulary = {} \/ tokens = <<>> THEN 0
                         ELSE (found * Unit) \div Len(tokens)

C15_MatchesOutrank ==
    (Scored /\ Len(split(RequestText)) = 1 /\ MatchesWordOnly(RequestText)) =>
        \A i \in 1..Len(candidates) : \A j \in 1..Len(candidates) :
            (/\ candidates[i].key \notin request.faults
             /\ candidates[j].key \notin request.faults
             /\ lower(strip(candidates[i].plaintext)) \in RequestVocab
             /\ lower(strip(candidates[j].plaintext)) \notin RequestVocab)
            => candidates[i].score > candidates[j].score

====
